---- MODULE Spec2Model ----
(***************************************************************************)
(* Model of graphics/src/layer.rs (Layer::generate, Layer::overlay) and    *)
(* graphics/src/transformation.rs (Transformation, TranslateScale).        *)
(*                                                                         *)
(* Coordinates are f32 in the source; the model uses integers, on which    *)
(* f32 arithmetic is exact for the small magnitudes used here.             *)
(* A primitive reference (&'a Primitive) is modelled as the path of the    *)
(* node in the input forest: <<i>> is the i-th top-level primitive and     *)
(* p \o <<j>> the j-th child of the node at p.                             *)
(***************************************************************************)
EXTENDS Integers, Sequences, FiniteSets, TLC

VARIABLES
    primitives,   \* generate: the borrowed input slice (never modified)
    viewport,     \* generate / overlay: the viewport's logical size
    layers,       \* generate: the growing Vec<Layer>
    stack,        \* generate: pending process_primitive calls, next call first
    pc,           \* generate: "start" | "walk" | "done"
    lines,        \* overlay: the input lines
    idx,          \* overlay: the loop index i (0-based)
    overlay,      \* overlay: the layer under construction
    opc,          \* overlay: "start" | "loop" | "done"
    xf,           \* transformation chain built with translated / scaled
    direct,       \* the same chain built with scale(..) * translate(..) * A
    ts,           \* the same chain built on TranslateScale
    nops          \* number of chain operations applied so far

vars == <<primitives, viewport, layers, stack, pc,
          lines, idx, overlay, opc, xf, direct, ts, nops>>

genVars == <<primitives, viewport, layers, stack, pc>>
ovlVars == <<lines, idx, overlay, opc>>
chainVars == <<xf, direct, ts, nops>>

----------------------------------------------------------------------------
(* Bounds of the model *)

MaxNodes == 3
MaxLines == 3
MaxOps == 3

----------------------------------------------------------------------------
(* Geometry of iced_native used by the two files *)

Point(x, y) == [x |-> x, y |-> y]
Size(w, h) == [width |-> w, height |-> h]
Rect(x, y, w, h) == [x |-> x, y |-> y, width |-> w, height |-> h]

Max(a, b) == IF a >= b THEN a ELSE b
Min(a, b) == IF a <= b THEN a ELSE b

\* Rectangle::with_size
with_size(size) == Rect(0, 0, size.width, size.height)

\* Rectangle::new(top_left, size)
RectangleNew(p, size) == Rect(p.x, p.y, size.width, size.height)

\* Rectangle::intersection: {} is None, {r} is Some(r)
Intersection(a, b) ==
    LET x == Max(a.x, b.x)
        y == Max(a.y, b.y)
        lower_right_x == Min(a.x + a.width, b.x + b.width)
        lower_right_y == Min(a.y + a.height, b.y + b.height)
        width == lower_right_x - x
        height == lower_right_y - y
    IN  IF width > 0 /\ height > 0 THEN {Rect(x, y, width, height)} ELSE {}

\* Viewport::logical_size
logical_size(v) == Size(v.width, v.height)

----------------------------------------------------------------------------
(* glam::Mat4, column major: a matrix is its four columns *)

Mat4Identity ==
    << <<1, 0, 0, 0>>, <<0, 1, 0, 0>>, <<0, 0, 1, 0>>, <<0, 0, 0, 1>> >>

Mat4FromTranslation(x, y, z) ==
    << <<1, 0, 0, 0>>, <<0, 1, 0, 0>>, <<0, 0, 1, 0>>, <<x, y, z, 1>> >>

Mat4FromScale(x, y, z) ==
    << <<x, 0, 0, 0>>, <<0, y, 0, 0>>, <<0, 0, z, 0>>, <<0, 0, 0, 1>> >>

Mat4MulVec(m, v) ==
    [i \in 1..4 |-> m[1][i] * v[1] + m[2][i] * v[2] + m[3][i] * v[3] + m[4][i] * v[4]]

Mat4Mul(a, b) == [j \in 1..4 |-> Mat4MulVec(a, b[j])]

\* Mat4::transform_point3: w = 1, no perspective divide
Mat4TransformPoint3(m, v) == Mat4MulVec(m, <<v[1], v[2], v[3], 1>>)

\* Mat4::transform_vector3: w = 0
Mat4TransformVector3(m, v) == Mat4MulVec(m, <<v[1], v[2], v[3], 0>>)

----------------------------------------------------------------------------
(* Transformation *)

identity == Mat4Identity

translate(x, y) == Mat4FromTranslation(x, y, 0)

translated(self, x, y) == Mat4Mul(Mat4FromTranslation(x, y, 0), self)

scale(x, y) == Mat4FromScale(x, y, 1)

scaled(self, x, y) == Mat4Mul(Mat4FromScale(x, y, 0), self)

transform_point(self, point) ==
    LET p == Mat4TransformPoint3(self, <<point.x, point.y, 0>>)
    IN  Point(p[1], p[2])

transform_vector(self, vector) ==
    LET p == Mat4TransformVector3(self, <<vector.x, vector.y, 0>>)
    IN  Point(p[1], p[2])

Mul(self, rhs) == Mat4Mul(self, rhs)

\* transform_scalar: the x component of the transformed vector (s, 0)
transform_scalar(self, s) == transform_vector(self, Point(s, 0)).x

\* transform_rectangle: the rectangle rebuilt from the transformed top-left
\* and bottom-right corners
transform_rectangle(self, r) ==
    LET top_left == transform_point(self, Point(r.x, r.y))
        bottom_right == transform_point(self, Point(r.x + r.width, r.y + r.height))
    IN  Rect(top_left.x, top_left.y,
             bottom_right.x - top_left.x, bottom_right.y - top_left.y)

----------------------------------------------------------------------------
(* TranslateScale *)

TS_identity == [translation |-> Point(0, 0), scale |-> 1]

TS_scaledKeepTranslation(self, s) ==
    [translation |-> self.translation, scale |-> self.scale * s]

TS_translated(self, translation) ==
    [translation |-> Point(self.translation.x + translation.x,
                           self.translation.y + translation.y),
     scale |-> self.scale]

TS_scaled(self, s) ==
    LET new_scale == self.scale * s
    IN  [translation |-> Point(self.translation.x * s, self.translation.y * s),
         scale |-> new_scale]

TS_transform_point(self, point) ==
    Point(point.x * self.scale + self.translation.x,
          point.y * self.scale + self.translation.y)

TS_transform_scalar(self, s) == s * self.scale

TS_transform_rectangle(self, rectangle) ==
    LET top_left == TS_transform_point(self, Point(rectangle.x, rectangle.y))
    IN  Rect(top_left.x, top_left.y,
             rectangle.width * self.scale, rectangle.height * self.scale)

----------------------------------------------------------------------------
(* The input of Layer::generate: forests of primitives *)

Viewports == {Size(4, 4), Size(6, 3)}
QuadBounds == {Rect(1, 1, 2, 2), Rect(3, 0, 1, 2)}
ClipBounds == {Rect(0, 0, 2, 2), Rect(1, 1, 3, 3), Rect(5, 1, 2, 2)}
Translations == {Point(1, 2), Point(-4, 0)}
Scales == {2, 3}

Leaves ==
    {[kind |-> "None"]}
    \cup {[kind |-> "Quad", bounds |-> b, border_radius |-> 1, border_width |-> 2] :
            b \in QuadBounds}
    \cup {[kind |-> "Text", bounds |-> Rect(0, 1, 3, 1), size |-> 3],
          [kind |-> "Mesh2D", size |-> Size(2, 2)],
          [kind |-> "Image", bounds |-> Rect(1, 0, 2, 2)],
          [kind |-> "Svg", bounds |-> Rect(2, 2, 1, 1)]}

RECURSIVE Trees(_), Forests(_)
\* the primitives with exactly n nodes
Trees(n) ==
    IF n = 0 THEN {}
    ELSE (IF n = 1 THEN Leaves ELSE {})
         \cup {[kind |-> "Group", primitives |-> f] : f \in Forests(n - 1)}
         \cup {[kind |-> "Clip", bounds |-> b, content |-> c] :
                 b \in ClipBounds, c \in Trees(n - 1)}
         \cup {[kind |-> "Translate", translation |-> v, content |-> c] :
                 v \in Translations, c \in Trees(n - 1)}
         \cup {[kind |-> "Scale", scale |-> s, content |-> c] :
                 s \in Scales, c \in Trees(n - 1)}
         \cup {[kind |-> "Cached", cache |-> c] : c \in Trees(n - 1)}

\* the sequences of primitives with exactly n nodes in all
Forests(n) ==
    IF n = 0 THEN {<<>>}
    ELSE UNION {{<<t>> \o f : t \in Trees(k), f \in Forests(n - k)} : k \in 1..n}

\* two sibling Clips: the smallest inputs in which a Clip follows a Clip's subtree
SiblingClips ==
    {<<[kind |-> "Clip", bounds |-> b1, content |-> c1],
       [kind |-> "Clip", bounds |-> b2, content |-> c2]>> :
        b1 \in ClipBounds, b2 \in ClipBounds, c1 \in Leaves, c2 \in Leaves}

Inputs == UNION {Forests(n) : n \in 0..MaxNodes} \cup SiblingClips

\* the primitives a node refers to
Children(n) ==
    IF n.kind = "Group" THEN n.primitives
    ELSE IF n.kind \in {"Clip", "Translate", "Scale"} THEN <<n.content>>
    ELSE IF n.kind = "Cached" THEN <<n.cache>>
    ELSE <<>>

RECURSIVE NodeIn(_, _)
NodeIn(forest, p) ==
    IF Len(p) = 1 THEN forest[p[1]]
    ELSE NodeIn(Children(forest[p[1]]), Tail(p))

\* dereference of a &'a Primitive
Node(p) == NodeIn(primitives, p)

----------------------------------------------------------------------------
(* Layer::generate and Layer::process_primitive *)

\* Layer::new; src names the primitive the layer was created for
LayerNew(bounds, src) ==
    [bounds |-> bounds, quads |-> <<>>, meshes |-> <<>>, text |-> <<>>,
     images |-> <<>>, src |-> src]

Frame(t, p, cur) == [transformation |-> t, primitive |-> p, current_layer |-> cur]

\* the calls of a loop over `prims`, the children of the node at path p
Calls(t, p, prims, cur) == [i \in 1..Len(prims) |-> Frame(t, p \o <<i>>, cur)]

TextArm(ls, t, p, cur) ==
    LET n == Node(p)
    IN  [ls EXCEPT ![cur + 1].text = Append(@,
            [bounds |-> transform_rectangle(t, n.bounds),
             size |-> transform_scalar(t, n.size),
             src |-> p])]

\* mutant: a quad outside its layer's bounds is culled
QuadArmCulled(ls, t, p, cur) ==
    LET n == Node(p)
        new_bounds == transform_rectangle(t, n.bounds)
    IN  IF Intersection(ls[cur + 1].bounds, new_bounds) = {} THEN ls
        ELSE [ls EXCEPT ![cur + 1].quads = Append(@,
                [position |-> <<new_bounds.x, new_bounds.y>>,
                 size |-> <<new_bounds.width, new_bounds.height>>,
                 border_radius |-> transform_scalar(t, n.border_radius),
                 border_width |-> transform_scalar(t, n.border_width),
                 src |-> p])]

QuadArm(ls, t, p, cur) ==
    LET n == Node(p)
        new_bounds == transform_rectangle(t, n.bounds)
    IN  [ls EXCEPT ![cur + 1].quads = Append(@,
            [position |-> <<new_bounds.x, new_bounds.y>>,
             size |-> <<new_bounds.width, new_bounds.height>>,
             border_radius |-> transform_scalar(t, n.border_radius),
             border_width |-> transform_scalar(t, n.border_width),
             src |-> p])]

\* mutant: the mesh's size is transformed like a rectangle's
Mesh2DArmScaledSize(ls, t, p, cur) ==
    LET n == Node(p)
        origin == transform_point(t, Point(0, 0))
        bounds == transform_rectangle(t, Rect(0, 0, n.size.width, n.size.height))
        isect == Intersection(ls[cur + 1].bounds, bounds)
    IN  IF isect # {}
        THEN [ls EXCEPT ![cur + 1].meshes = Append(@,
                [origin |-> origin,
                 clip_bounds |-> CHOOSE c \in isect : TRUE,
                 src |-> p])]
        ELSE ls

Mesh2DArm(ls, t, p, cur) ==
    LET n == Node(p)
        origin == transform_point(t, Point(0, 0))
        bounds == RectangleNew(Point(origin.x, origin.y), n.size)
        isect == Intersection(ls[cur + 1].bounds, bounds)
    IN  IF isect # {}
        THEN [ls EXCEPT ![cur + 1].meshes = Append(@,
                [origin |-> origin,
                 clip_bounds |-> CHOOSE c \in isect : TRUE,
                 src |-> p])]
        ELSE ls

\* mutants of the Clip arm: the layer takes the Clip's transformed bounds
\* unintersected; the content of a dropped Clip is still visited; the new
\* layer is inserted right after the root
ClipArmNoIntersect(ls, t, p, cur) ==
    LET transformed_bounds == transform_rectangle(t, Node(p).bounds)
    IN  IF Intersection(ls[cur + 1].bounds, transformed_bounds) # {}
        THEN [layers |-> Append(ls, LayerNew(transformed_bounds, p)),
              calls |-> <<Frame(t, p \o <<1>>, Len(ls))>>]
        ELSE [layers |-> ls, calls |-> <<>>]

ClipArmKeepContent(ls, t, p, cur) ==
    LET isect == Intersection(ls[cur + 1].bounds,
                              transform_rectangle(t, Node(p).bounds))
    IN  IF isect # {}
        THEN [layers |-> Append(ls, LayerNew(CHOOSE c \in isect : TRUE, p)),
              calls |-> <<Frame(t, p \o <<1>>, Len(ls))>>]
        ELSE [layers |-> ls, calls |-> <<Frame(t, p \o <<1>>, cur)>>]

ClipArmInsertFront(ls, t, p, cur) ==
    LET isect == Intersection(ls[cur + 1].bounds,
                              transform_rectangle(t, Node(p).bounds))
    IN  IF isect # {}
        THEN [layers |-> <<ls[1], LayerNew(CHOOSE c \in isect : TRUE, p)>>
                            \o Tail(ls),
              calls |-> <<Frame(t, p \o <<1>>, 1)>>]
        ELSE [layers |-> ls, calls |-> <<>>]

\* the Clip arm: the layers after it and the recursive calls it makes
ClipArm(ls, t, p, cur) ==
    LET n == Node(p)
        transformed_bounds == transform_rectangle(t, n.bounds)
        isect == Intersection(ls[cur + 1].bounds, transformed_bounds)
    IN  IF isect # {}
        THEN LET pushed == Append(ls, LayerNew(CHOOSE c \in isect : TRUE, p))
             IN  [layers |-> pushed,
                  calls |-> <<Frame(t, p \o <<1>>, Len(pushed) - 1)>>]
        ELSE [layers |-> ls, calls |-> <<>>]

GroupArm(t, p, cur) == Calls(t, p, Node(p).primitives, cur)

\* mutant: the offset replaces the accumulated transformation
TranslateArmForgetful(t, p, cur) ==
    LET n == Node(p)
    IN  <<Frame(translate(n.translation.x, n.translation.y), p \o <<1>>, cur)>>

TranslateArm(t, p, cur) ==
    LET n == Node(p)
    IN  <<Frame(translated(t, n.translation.x, n.translation.y), p \o <<1>>, cur)>>

ScaleArm(t, p, cur) ==
    LET n == Node(p)
    IN  <<Frame(scaled(t, n.scale, n.scale), p \o <<1>>, cur)>>

CachedArm(t, p, cur) == <<Frame(t, p \o <<1>>, cur)>>

ImageArm(ls, t, p, cur, variant) ==
    LET n == Node(p)
    IN  [ls EXCEPT ![cur + 1].images = Append(@,
            [variant |-> variant,
             bounds |-> transform_rectangle(t, n.bounds),
             src |-> p])]

Top == Head(stack)
TopIs(kind) == pc = "walk" /\ stack # <<>> /\ Node(Top.primitive).kind = kind

Generate ==
    /\ pc = "start"
    /\ layers' = <<LayerNew(with_size(logical_size(viewport)), <<>>)>>
    /\ stack' = Calls(identity, <<>>, primitives, 0)
    /\ pc' = "walk"
    /\ UNCHANGED <<primitives, viewport, ovlVars, chainVars>>

ProcessNone ==
    /\ TopIs("None")
    /\ stack' = Tail(stack)
    /\ UNCHANGED <<primitives, viewport, layers, pc, ovlVars, chainVars>>

ProcessGroup ==
    /\ TopIs("Group")
    /\ stack' = GroupArm(Top.transformation, Top.primitive, Top.current_layer)
                   \o Tail(stack)
    /\ UNCHANGED <<primitives, viewport, layers, pc, ovlVars, chainVars>>

ProcessText ==
    /\ TopIs("Text")
    /\ layers' = TextArm(layers, Top.transformation, Top.primitive, Top.current_layer)
    /\ stack' = Tail(stack)
    /\ UNCHANGED <<primitives, viewport, pc, ovlVars, chainVars>>

ProcessQuad ==
    /\ TopIs("Quad")
    /\ layers' = QuadArm(layers, Top.transformation, Top.primitive, Top.current_layer)
    /\ stack' = Tail(stack)
    /\ UNCHANGED <<primitives, viewport, pc, ovlVars, chainVars>>

ProcessMesh2D ==
    /\ TopIs("Mesh2D")
    /\ layers' = Mesh2DArm(layers, Top.transformation, Top.primitive, Top.current_layer)
    /\ stack' = Tail(stack)
    /\ UNCHANGED <<primitives, viewport, pc, ovlVars, chainVars>>

ProcessClip ==
    /\ TopIs("Clip")
    /\ LET r == ClipArm(layers, Top.transformation, Top.primitive, Top.current_layer)
       IN  /\ layers' = r.layers
           /\ stack' = r.calls \o Tail(stack)
    /\ UNCHANGED <<primitives, viewport, pc, ovlVars, chainVars>>

ProcessTranslate ==
    /\ TopIs("Translate")
    /\ stack' = TranslateArm(Top.transformation, Top.primitive, Top.current_layer)
                   \o Tail(stack)
    /\ UNCHANGED <<primitives, viewport, layers, pc, ovlVars, chainVars>>

ProcessScale ==
    /\ TopIs("Scale")
    /\ stack' = ScaleArm(Top.transformation, Top.primitive, Top.current_layer)
                   \o Tail(stack)
    /\ UNCHANGED <<primitives, viewport, layers, pc, ovlVars, chainVars>>

ProcessCached ==
    /\ TopIs("Cached")
    /\ stack' = CachedArm(Top.transformation, Top.primitive, Top.current_layer)
                   \o Tail(stack)
    /\ UNCHANGED <<primitives, viewport, layers, pc, ovlVars, chainVars>>

ProcessImage ==
    /\ TopIs("Image")
    /\ layers' = ImageArm(layers, Top.transformation, Top.primitive,
                          Top.current_layer, "Raster")
    /\ stack' = Tail(stack)
    /\ UNCHANGED <<primitives, viewport, pc, ovlVars, chainVars>>

ProcessSvg ==
    /\ TopIs("Svg")
    /\ layers' = ImageArm(layers, Top.transformation, Top.primitive,
                          Top.current_layer, "Vector")
    /\ stack' = Tail(stack)
    /\ UNCHANGED <<primitives, viewport, pc, ovlVars, chainVars>>

\* generate returns `layers` once every call has returned
GenerateReturn ==
    /\ pc = "walk"
    /\ stack = <<>>
    /\ pc' = "done"
    /\ UNCHANGED <<primitives, viewport, layers, stack, ovlVars, chainVars>>

----------------------------------------------------------------------------
(* Vocabulary of the properties of Layer::generate *)

RECURSIVE PathsIn(_, _)
PathsIn(forest, prefix) ==
    UNION {{prefix \o <<i>>} \cup PathsIn(Children(forest[i]), prefix \o <<i>>) :
             i \in 1..Len(forest)}

\* every primitive of the input
Paths == PathsIn(primitives, <<>>)
PathsOf(kinds) == {p \in Paths : Node(p).kind \in kinds}

IsPrefix(a, p) == Len(a) <= Len(p) /\ SubSeq(p, 1, Len(a)) = a
Ancestors(p) == {SubSeq(p, 1, k) : k \in 1..(Len(p) - 1)}
EnclosingClips(p) == {a \in Ancestors(p) : Node(a).kind = "Clip"}

\* p is visited before q in the pre-order (document order) traversal
Before(p, q) ==
    /\ p # q
    /\ \/ IsPrefix(p, q)
       \/ \E k \in 1..Min(Len(p), Len(q)) :
             SubSeq(p, 1, k - 1) = SubSeq(q, 1, k - 1) /\ p[k] < q[k]

\* the transformation accumulated by the first k ancestors of p
RECURSIVE Acc(_, _)
Acc(p, k) ==
    IF k = 0 THEN identity
    ELSE LET n == Node(SubSeq(p, 1, k))
             t == Acc(p, k - 1)
         IN  IF n.kind = "Translate" THEN translated(t, n.translation.x, n.translation.y)
             ELSE IF n.kind = "Scale" THEN scaled(t, n.scale, n.scale)
             ELSE t

\* the transformation with which the primitive at p is reached
AccT(p) == Acc(p, Len(p) - 1)

\* the transformed bounds of the Clip at q
TransformedBounds(q) == transform_rectangle(AccT(q), Node(q).bounds)

SetMax(S) == CHOOSE m \in S : \A n \in S : m >= n
SetMin(S) == CHOOSE m \in S : \A n \in S : m <= n

\* the common part of a non-empty set of rectangles, {} when there is none
CommonPart(S) ==
    LET x == SetMax({r.x : r \in S})
        y == SetMax({r.y : r \in S})
        right == SetMin({r.x + r.width : r \in S})
        bottom == SetMin({r.y + r.height : r \in S})
    IN  IF right - x > 0 /\ bottom - y > 0
        THEN {Rect(x, y, right - x, bottom - y)} ELSE {}

ViewportRect == Rect(0, 0, viewport.width, viewport.height)

\* viewport /\ transformed bounds of the Clip at q and of every Clip around it
ClipRegion(q) ==
    CommonPart({ViewportRect}
               \cup {TransformedBounds(a) : a \in EnclosingClips(q) \cup {q}})

LayerIndexes == 1..Len(layers)
LayerSrcs == {layers[i].src : i \in LayerIndexes}
LayersOf(q) == {i \in LayerIndexes : layers[i].src = q}

\* the nearest enclosing Clip of p, <<>> (the root) when there is none
Owner(p) ==
    LET cs == EnclosingClips(p)
    IN  IF cs = {} THEN <<>> ELSE CHOOSE c \in cs : \A d \in cs : Len(d) <= Len(c)

\* p lies in no dropped Clip: every Clip around it created a layer
Kept(p) == EnclosingClips(p) \subseteq LayerSrcs

Srcs(records) == [i \in 1..Len(records) |-> records[i].src]
Range(f) == {f[i] : i \in 1..Len(f)}
InDocumentOrder(ps) == \A i, j \in 1..Len(ps) : i < j => Before(ps[i], ps[j])

\* every record of layer k, of any category
RecordSrcs(k) ==
    Range(Srcs(layers[k].quads)) \cup Range(Srcs(layers[k].text))
    \cup Range(Srcs(layers[k].images)) \cup Range(Srcs(layers[k].meshes))

Contains(outer, inner) ==
    /\ outer.x <= inner.x /\ inner.x + inner.width <= outer.x + outer.width
    /\ outer.y <= inner.y /\ inner.y + inner.height <= outer.y + outer.height

----------------------------------------------------------------------------
(* C1 *)

\* C1: every Clip whose transformed bounds meet the bounds of the layer
\* current at that Clip has appended exactly one layer, whose bounds are that
\* intersection; the bounds of a layer created by a Clip are the common part
\* of the viewport rectangle and the transformed bounds of that Clip and of
\* all Clips enclosing it.
C1_ClipLayerBounds ==
    pc = "done" =>
        /\ \A q \in PathsOf({"Clip"}) : \A i \in LayersOf(Owner(q)) :
              LET isect == Intersection(layers[i].bounds, TransformedBounds(q))
              IN  isect # {} =>
                    /\ Cardinality(LayersOf(q)) = 1
                    /\ \A j \in LayersOf(q) : {layers[j].bounds} = isect
        /\ \A i \in LayerIndexes : i >= 2 =>
              /\ Node(layers[i].src).kind = "Clip"
              /\ {layers[i].bounds} = ClipRegion(layers[i].src)

\* a Clip nested in a Clip created a layer smaller than its own transformed
\* bounds and smaller than the outer layer
C1_Witness ==
    /\ pc = "done"
    /\ \E i, j \in LayerIndexes :
          /\ i >= 2 /\ j >= 2
          /\ layers[i].src \in EnclosingClips(layers[j].src)
          /\ layers[j].bounds # TransformedBounds(layers[j].src)
          /\ layers[j].bounds # layers[i].bounds

----------------------------------------------------------------------------
(* C2 *)

DropsClip ==
    /\ TopIs("Clip")
    /\ Intersection(layers[Top.current_layer + 1].bounds,
                    transform_rectangle(Top.transformation,
                                        Node(Top.primitive).bounds)) = {}

NothingRecordedUnder(q) ==
    \A k \in LayerIndexes :
        /\ ~IsPrefix(q, layers[k].src)
        /\ \A p \in RecordSrcs(k) : ~IsPrefix(q, p)

C2_DroppedInv ==
    pc \in {"walk", "done"} =>
        \A q \in PathsOf({"Clip"}) : \A i \in LayersOf(Owner(q)) :
            Intersection(layers[i].bounds, TransformedBounds(q)) = {}
                => NothingRecordedUnder(q)

\* C2: a Clip whose transformed bounds do not meet the current layer's bounds
\* leaves the layer list unchanged when it is processed, and no layer and no
\* record is ever made for the Clip or for a primitive of its content subtree.
C2_DroppedClipChangesNothing ==
    /\ []C2_DroppedInv
    /\ [][DropsClip => layers' = layers]_vars

\* a reached Clip was dropped although its subtree holds a Clip around a
\* recordable primitive, or a recordable primitive
C2_Witness ==
    /\ pc = "done"
    /\ \E q \in PathsOf({"Clip"}) :
          /\ Kept(q)
          /\ q \notin LayerSrcs
          /\ \E p \in PathsOf({"Quad", "Text", "Image", "Svg", "Mesh2D"}) :
                IsPrefix(q, p)

----------------------------------------------------------------------------
(* C3 *)

C3_OrderInv ==
    pc \in {"walk", "done"} =>
        /\ Len(layers) >= 1
        /\ layers[1].src = <<>>
        /\ layers[1].bounds = Rect(0, 0, viewport.width, viewport.height)
        /\ \A i, j \in LayerIndexes :
              (2 <= i /\ i < j) => Before(layers[i].src, layers[j].src)
        /\ pc = "done" =>
              {layers[i].src : i \in 2..Len(layers)}
                 = {q \in PathsOf({"Clip"}) : ClipRegion(q) # {}}

LayersOnlyAppended ==
    /\ Len(layers') >= Len(layers)
    /\ \A i \in LayerIndexes :
          /\ layers'[i].bounds = layers[i].bounds
          /\ layers'[i].src = layers[i].src

\* C3: layer 0 is the root with the full viewport as bounds; the other layers
\* stand in the pre-order of the Clips that created them, one per Clip that
\* creates a layer; a step only appends layers and never moves, removes or
\* re-targets one.
C3_LayerOrder ==
    /\ []C3_OrderInv
    /\ [][pc = "walk" => LayersOnlyAppended]_vars

\* two sibling Clips both created a layer
C3_Witness ==
    /\ pc = "done"
    /\ \E i, j \in LayerIndexes :
          /\ 2 <= i /\ i < j
          /\ ~IsPrefix(layers[i].src, layers[j].src)

----------------------------------------------------------------------------
(* C4 *)

Routed(kinds, k) ==
    {p \in PathsOf(kinds) : Kept(p) /\ Owner(p) = layers[k].src}

\* C4: in every layer the quad, text and image sequences hold exactly one
\* record per Quad, Text, Image/Svg primitive that lies in no dropped Clip and
\* whose nearest enclosing Clip created the layer (the root layer when it has
\* none), in document order, whatever the record's bounds.
C4_RecordsRouted ==
    pc = "done" =>
        \A k \in LayerIndexes :
            /\ InDocumentOrder(Srcs(layers[k].quads))
            /\ Range(Srcs(layers[k].quads)) = Routed({"Quad"}, k)
            /\ InDocumentOrder(Srcs(layers[k].text))
            /\ Range(Srcs(layers[k].text)) = Routed({"Text"}, k)
            /\ InDocumentOrder(Srcs(layers[k].images))
            /\ Range(Srcs(layers[k].images)) = Routed({"Image", "Svg"}, k)
            /\ \A i \in 1..Len(layers[k].images) :
                  layers[k].images[i].variant =
                     (IF Node(layers[k].images[i].src).kind = "Image"
                      THEN "Raster" ELSE "Vector")

QuadRect(r) == Rect(r.position[1], r.position[2], r.size[1], r.size[2])

\* a Clip's layer holds a quad lying entirely outside the layer's bounds, and
\* a primitive that follows that Clip is recorded in the root layer
C4_Witness ==
    /\ pc = "done"
    /\ \E k \in LayerIndexes :
          /\ k >= 2
          /\ \E i \in 1..Len(layers[k].quads) :
                Intersection(layers[k].bounds, QuadRect(layers[k].quads[i])) = {}
          /\ \E p \in RecordSrcs(1) : Before(layers[k].src, p)

----------------------------------------------------------------------------
(* C5 *)

MeshBounds(p) == RectangleNew(transform_point(AccT(p), Point(0, 0)), Node(p).size)

C5_MeshInv ==
    pc = "done" =>
        \A k \in LayerIndexes :
            /\ InDocumentOrder(Srcs(layers[k].meshes))
            /\ Range(Srcs(layers[k].meshes)) =
                  {p \in Routed({"Mesh2D"}, k) :
                      Intersection(layers[k].bounds, MeshBounds(p)) # {}}
            /\ \A i \in 1..Len(layers[k].meshes) :
                  LET m == layers[k].meshes[i]
                  IN  /\ m.origin = transform_point(AccT(m.src), Point(0, 0))
                      /\ {m.clip_bounds} =
                            Intersection(layers[k].bounds, MeshBounds(m.src))
                      /\ Contains(layers[k].bounds, m.clip_bounds)

DropsMesh ==
    /\ TopIs("Mesh2D")
    /\ LET origin == transform_point(Top.transformation, Point(0, 0))
       IN  Intersection(layers[Top.current_layer + 1].bounds,
                        RectangleNew(origin, Node(Top.primitive).size)) = {}

\* C5: a Mesh2D reached with transformation T and current layer k is recorded
\* in layer k exactly when the rectangle at T(0,0) with the mesh's own size
\* meets the layer's bounds; the record has origin T(0,0) and that
\* intersection as clip_bounds, inside the layer's bounds; a mesh that does
\* not meet them changes no layer.
C5_MeshCulled ==
    /\ []C5_MeshInv
    /\ [][DropsMesh => layers' = layers]_vars

\* a mesh was recorded under a Scale with clip bounds cut by its layer
C5_Witness ==
    /\ pc = "done"
    /\ \E k \in LayerIndexes : \E i \in 1..Len(layers[k].meshes) :
          LET m == layers[k].meshes[i]
          IN  /\ m.clip_bounds # MeshBounds(m.src)
              /\ \E a \in Ancestors(m.src) :
                    Node(a).kind = "Scale" /\ Node(a).scale > 0

----------------------------------------------------------------------------
(* Layer::overlay *)

INFINITY == "INFINITY"

\* Rectangle + Vector
RectangleAdd(r, v) == Rect(r.x + v.x, r.y + v.y, r.width, r.height)

\* colour components in tenths: [0.9, 0.9, 0.9, 1.0] and [0.0, 0.0, 0.0, 1.0]
OverlayLight == <<9, 9, 9, 10>>
OverlayDark == <<0, 0, 0, 10>>

OverlayText(line, i) ==
    [content |-> line,
     bounds |-> RectangleNew(Point(11, 11 + 25 * i), Size(INFINITY, INFINITY)),
     color |-> OverlayLight,
     size |-> 20,
     font |-> "Default",
     horizontal_alignment |-> "Left",
     vertical_alignment |-> "Top"]

\* mutant: the offset black copy is pushed before the light one
OverlayPushShadowFirst(text_seq, line, i) ==
    LET text == OverlayText(line, i)
    IN  text_seq \o <<[text EXCEPT !.bounds = RectangleAdd(text.bounds, Point(-1, -1)),
                                   !.color = OverlayDark],
                      text>>

\* the two pushes of one loop iteration
OverlayPush(text_seq, line, i) ==
    LET text == OverlayText(line, i)
    IN  text_seq \o <<text,
                      [text EXCEPT !.bounds = RectangleAdd(text.bounds, Point(-1, -1)),
                                   !.color = OverlayDark]>>

OverlayNew ==
    /\ opc = "start"
    /\ overlay' = LayerNew(with_size(logical_size(viewport)), <<>>)
    /\ idx' = 0
    /\ opc' = "loop"
    /\ UNCHANGED <<lines, genVars, chainVars>>

OverlayLine ==
    /\ opc = "loop"
    /\ idx < Len(lines)
    /\ overlay' = [overlay EXCEPT !.text = OverlayPush(@, lines[idx + 1], idx)]
    /\ idx' = idx + 1
    /\ UNCHANGED <<lines, opc, genVars, chainVars>>

OverlayReturn ==
    /\ opc = "loop"
    /\ idx = Len(lines)
    /\ opc' = "done"
    /\ UNCHANGED <<lines, idx, overlay, genVars, chainVars>>

----------------------------------------------------------------------------
(* Chains of translated / scaled *)

ChainOffsets == {-1, 0, 2}
ChainFactors == {-1, 0, 2, 3}
StartTransformations == {identity, translate(1, 2), scale(2, 3)}

ChainTranslated ==
    /\ nops < MaxOps
    /\ \E dx \in ChainOffsets, dy \in ChainOffsets :
          /\ xf' = translated(xf, dx, dy)
          /\ direct' = Mul(translate(dx, dy), direct)
    /\ nops' = nops + 1
    /\ UNCHANGED <<ts, genVars, ovlVars>>

ChainScaled ==
    /\ nops < MaxOps
    /\ \E sx \in ChainFactors, sy \in ChainFactors :
          /\ xf' = scaled(xf, sx, sy)
          /\ direct' = Mul(scale(sx, sy), direct)
    /\ nops' = nops + 1
    /\ UNCHANGED <<ts, genVars, ovlVars>>

TSTranslated ==
    /\ nops < MaxOps
    /\ \E dx \in ChainOffsets, dy \in ChainOffsets :
          /\ xf' = translated(xf, dx, dy)
          /\ ts' = TS_translated(ts, Point(dx, dy))
    /\ nops' = nops + 1
    /\ UNCHANGED <<direct, genVars, ovlVars>>

TSScaled ==
    /\ nops < MaxOps
    /\ \E s \in ChainFactors :
          /\ xf' = scaled(xf, s, s)
          /\ ts' = TS_scaled(ts, s)
    /\ nops' = nops + 1
    /\ UNCHANGED <<direct, genVars, ovlVars>>

----------------------------------------------------------------------------
(* C8 *)

QuadRecordsOf(q) ==
    {r \in UNION {Range(layers[k].quads) : k \in LayerIndexes} : r.src = q}

IsScaleTranslateQuad(p) ==
    /\ Node(p).kind = "Scale"
    /\ Node(p).scale > 0
    /\ Node(p).content.kind = "Translate"
    /\ Node(p).content.content.kind = "Quad"

\* C8: for Scale{f, Translate{(dx,dy), Quad at (x,y,w,h)}} with f > 0, reached
\* with the identity transformation, the quad record has position
\* (f*(x+dx), f*(y+dy)) and size (f*w, f*h).
C8_OffsetInParentSpace ==
    pc = "done" =>
        \A p \in PathsOf({"Scale"}) :
            (IsScaleTranslateQuad(p) /\ AccT(p) = identity /\ Kept(p)) =>
                LET f == Node(p).scale
                    d == Node(p).content.translation
                    b == Node(p).content.content.bounds
                    rs == QuadRecordsOf(p \o <<1, 1>>)
                IN  /\ rs # {}
                    /\ \A r \in rs :
                          /\ r.position = <<f * (b.x + d.x), f * (b.y + d.y)>>
                          /\ r.size = <<f * b.width, f * b.height>>

----------------------------------------------------------------------------
(* C9 *)

\* the Translate wrappers around q with no Scale and no Clip between them and q
TranslateChain(q) ==
    {a \in Ancestors(q) :
        /\ Node(a).kind = "Translate"
        /\ \A b \in Ancestors(q) :
              Len(b) > Len(a) => Node(b).kind \notin {"Scale", "Clip"}}

Outermost(S) == CHOOSE a \in S : \A b \in S : Len(a) <= Len(b)

RECURSIVE SumOfTranslations(_)
SumOfTranslations(S) ==
    IF S = {} THEN Point(0, 0)
    ELSE LET a == CHOOSE a \in S : TRUE
             rest == SumOfTranslations(S \ {a})
         IN  Point(Node(a).translation.x + rest.x, Node(a).translation.y + rest.y)

\* the quad at q is recorded once, in the layer current at its outermost
\* Translate, moved by the sum of the offsets and with its size unchanged
RecordedTranslated(q) ==
    LET chain == TranslateChain(q)
        sum == SumOfTranslations(chain)
        b == Node(q).bounds
    IN  /\ \A k \in LayerIndexes :
              Cardinality({i \in 1..Len(layers[k].quads) : layers[k].quads[i].src = q})
                 = (IF layers[k].src = Owner(Outermost(chain)) THEN 1 ELSE 0)
        /\ \A r \in QuadRecordsOf(q) :
              /\ r.position = <<b.x + sum.x, b.y + sum.y>>
              /\ r.size = <<b.width, b.height>>

WrapperStep ==
    /\ pc = "walk" /\ stack # <<>>
    /\ Node(Top.primitive).kind \in {"Translate", "Scale", "Cached", "Group"}

\* the step changes no layer and its calls keep the current layer
KeepsLayer ==
    /\ layers' = layers
    /\ \A i \in 1..(Len(stack') - Len(stack) + 1) :
          stack'[i].current_layer = Top.current_layer

C9_OriginalInv ==
    pc = "done" =>
        \A q \in PathsOf({"Quad"}) :
            (TranslateChain(q) # {} /\ Kept(q)) => RecordedTranslated(q)

\* C9 as stated: every Quad inside nested Translate wrappers, wherever they
\* stand in the tree, is recorded once with position (x + sum dx, y + sum dy)
\* and unchanged size; wrappers create no layer and keep the current layer.
C9_Original ==
    /\ []C9_OriginalInv
    /\ [][WrapperStep => KeepsLayer]_vars

C9_AmendedInv ==
    pc = "done" =>
        \A q \in PathsOf({"Quad"}) :
            (/\ TranslateChain(q) # {}
             /\ Kept(q)
             /\ AccT(Outermost(TranslateChain(q))) = identity) => RecordedTranslated(q)

\* C9 amended: the same, for nested Translate wrappers whose outermost one is
\* reached with the identity transformation.
C9_TranslatedQuad ==
    /\ []C9_AmendedInv
    /\ [][WrapperStep => KeepsLayer]_vars

\* a quad inside two nested Translate wrappers was recorded
C9_Witness ==
    /\ pc = "done"
    /\ \E q \in PathsOf({"Quad"}) :
          /\ Cardinality(TranslateChain(q)) >= 2
          /\ AccT(Outermost(TranslateChain(q))) = identity
          /\ QuadRecordsOf(q) # {}

----------------------------------------------------------------------------
(* C7 *)

Brightness(c) == c[1] + c[2] + c[3]

\* the records differ in nothing but colour and bounds
SameButColorAndBounds(a, b) ==
    [a EXCEPT !.color = b.color, !.bounds = b.bounds] = b

OverlayShape ==
    /\ overlay.bounds = Rect(0, 0, viewport.width, viewport.height)
    /\ overlay.quads = <<>> /\ overlay.meshes = <<>> /\ overlay.images = <<>>
    /\ Len(overlay.text) = 2 * Len(lines)

\* shadow and foreground are the two copies of line i, the shadow the darker
\* one, one pixel up and left of the foreground
ShadowPair(shadow, foreground, i) ==
    /\ foreground.content = lines[i]
    /\ SameButColorAndBounds(shadow, foreground)
    /\ Brightness(shadow.color) < Brightness(foreground.color)
    /\ shadow.bounds = RectangleAdd(foreground.bounds, Point(-1, -1))

\* C7 as stated: one layer with the full viewport as bounds whose text holds,
\* per line and in order, the dark shadow copy first and then the light copy.
C7_ShadowFirst ==
    opc = "done" =>
        /\ OverlayShape
        /\ \A i \in 1..Len(lines) :
              ShadowPair(overlay.text[2 * i - 1], overlay.text[2 * i], i)

\* C7 amended: per line and in order, the light copy first and then the dark
\* copy, which is offset by (-1,-1) from the light one.
C7_LightFirst ==
    opc = "done" =>
        /\ OverlayShape
        /\ \A i \in 1..Len(lines) :
              ShadowPair(overlay.text[2 * i], overlay.text[2 * i - 1], i)

\* overlay returned a layer for two different lines
C7_Witness ==
    /\ opc = "done"
    /\ Len(lines) >= 2
    /\ lines[1] # lines[2]
    /\ Len(overlay.text) = 4

----------------------------------------------------------------------------
(* C6 *)

\* C6: a chain built step by step with translated / scaled is the same 4x4
\* matrix as the product scale(..) * translate(..) * A built directly.
C6_StepwiseIsProduct == xf = direct

----------------------------------------------------------------------------
(* C10 *)

TestPoints == {Point(x, y) : x \in {-1, 0, 3}, y \in {-1, 0, 3}}
TestRectangles == {Rect(0, 0, 1, 1), Rect(-1, 2, 3, 1), Rect(2, -3, 0, 2)}

FromCorners(self, r) ==
    LET top_left == TS_transform_point(self, Point(r.x, r.y))
        bottom_right == TS_transform_point(self, Point(r.x + r.width, r.y + r.height))
    IN  Rect(top_left.x, top_left.y,
             bottom_right.x - top_left.x, bottom_right.y - top_left.y)

\* C10: after the same sequence of translated / scaled operations from the
\* identity, TranslateScale and Transformation map every point to the same
\* point; under a non-negative scale TranslateScale maps a rectangle to the
\* rectangle rebuilt from its two transformed corners.
C10_TranslateScaleAgrees ==
    /\ \A p \in TestPoints : TS_transform_point(ts, p) = transform_point(xf, p)
    /\ ts.scale >= 0 =>
          \A r \in TestRectangles : TS_transform_rectangle(ts, r) = FromCorners(ts, r)

\* a chain that translated, then scaled, then translated again
C10_Witness ==
    /\ nops = MaxOps
    /\ ts.scale > 1
    /\ ts.translation.x # 0
    /\ ts.translation.y # 0
    /\ TS_transform_point(ts, Point(3, -1)) # Point(3, -1)

----------------------------------------------------------------------------
(* Specifications *)

IdleOverlay == lines = <<>> /\ idx = 0 /\ overlay = <<>> /\ opc = "idle"
IdleChain == xf = identity /\ direct = identity /\ ts = TS_identity /\ nops = 0
IdleGenerate == primitives = <<>> /\ layers = <<>> /\ stack = <<>> /\ pc = "idle"

Init ==
    /\ primitives \in Inputs
    /\ viewport \in Viewports
    /\ layers = <<>>
    /\ stack = <<>>
    /\ pc = "start"
    /\ IdleOverlay
    /\ IdleChain

Next ==
    \/ Generate
    \/ ProcessNone
    \/ ProcessGroup
    \/ ProcessText
    \/ ProcessQuad
    \/ ProcessMesh2D
    \/ ProcessClip
    \/ ProcessTranslate
    \/ ProcessScale
    \/ ProcessCached
    \/ ProcessImage
    \/ ProcessSvg
    \/ GenerateReturn

\* Layer::generate on every input forest of at most MaxNodes primitives
Spec == Init /\ [][Next]_vars

OverlayLines == {"fps: 60", "x"}

InitOverlay ==
    /\ lines \in UNION {[1..n -> OverlayLines] : n \in 0..MaxLines}
    /\ viewport \in Viewports
    /\ idx = 0
    /\ overlay = <<>>
    /\ opc = "start"
    /\ IdleGenerate
    /\ IdleChain

NextOverlay == OverlayNew \/ OverlayLine \/ OverlayReturn

\* Layer::overlay on every sequence of at most MaxLines lines
SpecOverlay == InitOverlay /\ [][NextOverlay]_vars

InitCompose ==
    /\ xf \in StartTransformations
    /\ direct = xf
    /\ ts = TS_identity
    /\ nops = 0
    /\ viewport = Size(4, 4)
    /\ IdleGenerate
    /\ IdleOverlay

NextCompose == ChainTranslated \/ ChainScaled

\* translated / scaled chains against the directly built product
SpecCompose == InitCompose /\ [][NextCompose]_vars

InitTS ==
    /\ xf = identity
    /\ direct = identity
    /\ ts = TS_identity
    /\ nops = 0
    /\ viewport = Size(4, 4)
    /\ IdleGenerate
    /\ IdleOverlay

NextTS == TSTranslated \/ TSScaled

\* the same chain on Transformation and on TranslateScale
SpecTS == InitTS /\ [][NextTS]_vars

====
